---- MODULE Spec2Model ----
(***************************************************************************)
(* A model of the Union operator of src/src/ops/union.rs: the emit policy, *)
(* the regular transform (on_input), the replay coordinator                *)
(* (on_input_raw), duplication (clone / take), construction (new) and      *)
(* identifier migration (on_commit).                                       *)
(*                                                                         *)
(* Column indices are 0-based as in the source; rows are TLA+ sequences,   *)
(* so column c of row r is r[c + 1].                                       *)
(***************************************************************************)
EXTENDS Integers, Sequences, FiniteSets, TLC

VARIABLES
    u,        \* the operator: [emit, replay_key, replay_pieces], or NoUnion
    cp,       \* the copy made by clone / take (same shape), or NoUnion
    nshards,  \* the shard count the domain passes to on_input_raw
    call,     \* the last call: operation, target instance and arguments
    res,      \* what the last call returned (or that it panicked)
    pre,      \* the target instance as it was when the last call started
    sent,     \* per ancestor, the ordinary records delivered so far
    aborted,  \* a panic has unwound the domain thread
    ncalls    \* number of calls made so far

vars == <<u, cp, nshards, call, res, pre, sent, aborted, ncalls>>

-----------------------------------------------------------------------------
(* Bounds *)

MaxCalls == 4        \* calls per behaviour of Spec
MaxSnapCalls == 5    \* calls per behaviour of SpecSnapshot
MaxCloneCalls == 3   \* calls per behaviour of SpecClone
MaxRegularCalls == 1 \* calls per behaviour of SpecRegular
MaxRegularBatch == 1 \* records per batch in SpecRegular
MaxCommits == 2      \* on_commit calls per behaviour of SpecCommit
MaxListLen == 2      \* length of a column list handed to Union::new
MaxNode == 3         \* node addresses 1..MaxNode in SpecCommit
MaxResolveCalls == 2 \* calls per behaviour of SpecResolve
MaxPureCalls == 3    \* calls per behaviour of SpecPure
MaxOrderCalls == 3   \* calls per behaviour of SpecOrder
MaxLiveCalls == 4    \* calls per behaviour of SpecLive
MaxRoundCalls == 5   \* calls per behaviour of SpecRound

-----------------------------------------------------------------------------
(* Option<T> *)

None == [some |-> FALSE]
Some(x) == [some |-> TRUE, v |-> x]

(* An empty HashMap / Map *)
EmptyMap == <<>>

NoUnion == [kind |-> "NoUnion"]
NoCall == [op |-> "none"]
NoResult == [kind |-> "None"]
Panic == [kind |-> "Panic"]

-----------------------------------------------------------------------------
(* Emit *)

Project(emit, cols) == [kind |-> "Project", emit |-> emit, cols |-> cols]
AllFrom(parent) == [kind |-> "AllFrom", parent |-> parent]

Union(emit) == [emit |-> emit, replay_key |-> None, replay_pieces |-> EmptyMap]

(* Union::new: the column lists must not go down; an empty map and an     *)
(* empty list (emit[0]) panic.                                             *)
NewMutNoCheck(emit) == Some(Union(Project(emit, EmptyMap)))

new(emit) ==
    IF DOMAIN emit = {} THEN None
    ELSE IF \E a \in DOMAIN emit :
                \/ Len(emit[a]) = 0
                \/ \E i \in 2..Len(emit[a]) : emit[a][i] < emit[a][i - 1]
         THEN None
         ELSE Some(Union(Project(emit, EmptyMap)))

new_deshard(parent) == Union(AllFrom(parent))

(* impl Clone for Union *)
CloneMutKeepsState(self) == self

Clone(self) == [emit |-> self.emit, replay_key |-> None, replay_pieces |-> EmptyMap]

(* Union::on_connected: cols.extend(emit.keys() -> field count) *)
on_connected(self, fields) ==
    IF self.emit.kind = "Project"
    THEN [self EXCEPT !.emit.cols =
              [n \in DOMAIN self.emit.cols \cup DOMAIN self.emit.emit |->
                  IF n \in DOMAIN self.emit.emit THEN fields[n] ELSE self.emit.cols[n]]]
    ELSE self

(* map.remove(from) followed by map.insert(to, e) *)
Rename(map, from, to) ==
    [k \in (DOMAIN map \ {from}) \cup {to} |-> IF k = to THEN map[from] ELSE map[k]]

(* Union::on_commit, Emit::Project: the loop over the entries of remap in *)
(* the order ord in which the HashMap yields them.  insert(..).is_none()   *)
(* fails when the new key is already there.                                *)
RECURSIVE CommitLoop(_, _, _, _)
CommitLoop(emit, cols, remap, ord) ==
    IF ord = <<>> THEN [kind |-> "Ok", emit |-> emit, cols |-> cols]
    ELSE LET from == Head(ord)
             to == remap[from]
         IN IF from = to THEN CommitLoop(emit, cols, remap, Tail(ord))
            ELSE IF from \in DOMAIN emit /\ to \in DOMAIN emit
                 THEN [kind |-> "Panic", emit |-> Rename(emit, from, to), cols |-> cols]
                 ELSE LET emit1 == IF from \in DOMAIN emit
                                   THEN Rename(emit, from, to) ELSE emit
                      IN IF from \in DOMAIN cols /\ to \in DOMAIN cols
                         THEN [kind |-> "Panic", emit |-> emit1,
                               cols |-> Rename(cols, from, to)]
                         ELSE CommitLoop(emit1,
                                         IF from \in DOMAIN cols
                                         THEN Rename(cols, from, to) ELSE cols,
                                         remap, Tail(ord))

(* Union::on_commit; remap[p] panics when p is no key of remap *)
on_commit(self, remap, ord) ==
    IF self.emit.kind = "Project"
    THEN LET out == CommitLoop(self.emit.emit, self.emit.cols, remap, ord)
         IN [kind |-> out.kind,
             self |-> [self EXCEPT !.emit.emit = out.emit, !.emit.cols = out.cols]]
    ELSE IF self.emit.parent \in DOMAIN remap
         THEN [kind |-> "Ok", self |-> [self EXCEPT !.emit.parent = remap[self.emit.parent]]]
         ELSE [kind |-> "Panic", self |-> self]

-----------------------------------------------------------------------------
(* Records *)

Rec(row, pos) == [row |-> row, pos |-> pos]

(* on_input, Emit::Project: the selected columns of one record, sign kept *)
ProjectRecordMutDropsSign(cols, rec) ==
    [row |-> [j \in 1..Len(cols) |-> rec.row[cols[j] + 1]], pos |-> TRUE]

ProjectRecord(cols, rec) ==
    [row |-> [j \in 1..Len(cols) |-> rec.row[cols[j] + 1]], pos |-> rec.pos]

(* Union::on_input: ProcessingResult { results, misses } *)
OnInputMutReportsMisses(emit, from, rs) ==
    IF emit.kind = "AllFrom"
    THEN [kind |-> "Ok", results |-> rs, misses |-> rs]
    ELSE IF from \notin DOMAIN emit.emit
         THEN Panic
         ELSE [kind |-> "Ok",
               results |-> [i \in 1..Len(rs) |-> ProjectRecord(emit.emit[from], rs[i])],
               misses |-> rs]

on_input(emit, from, rs) ==
    IF emit.kind = "AllFrom"
    THEN [kind |-> "Ok", results |-> rs, misses |-> <<>>]
    ELSE IF from \notin DOMAIN emit.emit
         THEN Panic
         ELSE [kind |-> "Ok",
               results |-> [i \in 1..Len(rs) |-> ProjectRecord(emit.emit[from], rs[i])],
               misses |-> <<>>]

Regular(pr) ==
    IF pr.kind = "Panic" THEN Panic
    ELSE [kind |-> "Regular", results |-> pr.results, misses |-> pr.misses]

-----------------------------------------------------------------------------
(* Union::on_input_raw *)

IsFastPathMutIgnoresBuffer(self) == ~self.replay_key.some

IsFastPath(self) == ~self.replay_key.some \/ DOMAIN self.replay_pieces = {}

(* The loop over the records of an ordinary batch on the slow path: a     *)
(* record is pushed onto the sender's buffered piece for its key value.    *)
RECURSIVE LeakForward(_, _, _, _)
LeakForward(pieces, k, from, rs) ==
    IF rs = <<>> THEN pieces
    ELSE LET r == Head(rs)
             kv == r.row[k + 1]
             next == IF kv \in DOMAIN pieces /\ from \in DOMAIN pieces[kv]
                     THEN [pieces EXCEPT ![kv][from] = Append(@, r)]
                     ELSE pieces
         IN LeakForward(next, k, from, Tail(rs))

LeakMutForgets(pieces, k, from, rs) == pieces

LeakMutPushesFront(pieces, k, from, rs) ==
    [kv \in DOMAIN pieces |->
        [a \in DOMAIN pieces[kv] |->
            IF a = from
            THEN LET Match(r) == r.row[k + 1] = kv
                 IN SelectSeq(rs, Match) \o pieces[kv][a]
            ELSE pieces[kv][a]]]

LeakMutCreatesPiece(pieces, k, from, rs) ==
    [kv \in DOMAIN pieces |->
        [a \in DOMAIN pieces[kv] \cup {from} |->
            IF a = from
            THEN LET Match(r) == r.row[k + 1] = kv
                 IN (IF from \in DOMAIN pieces[kv] THEN pieces[kv][a] ELSE <<>>)
                        \o SelectSeq(rs, Match)
            ELSE pieces[kv][a]]]

Leak(pieces, k, from, rs) == LeakForward(pieces, k, from, rs)

(* The replay key established by the first replay piece *)
EstablishReplayKeyMutOutputColumn(emit, from, key_col) ==
    IF emit.kind = "AllFrom"
    THEN (from :> key_col)
    ELSE [src \in DOMAIN emit.emit |-> key_col]

EstablishReplayKey(emit, from, key_col) ==
    IF emit.kind = "AllFrom"
    THEN (from :> key_col)
    ELSE [src \in DOMAIN emit.emit |-> emit.emit[src][key_col + 1]]

(* replay_pieces.entry(key_val).or_insert_with(Map::new) *)
Entry(pieces, key_val) ==
    IF key_val \in DOMAIN pieces THEN pieces[key_val] ELSE EmptyMap

(* assert!(!pieces.contains_key(from)) *)
DuplicatePieceMutAllows(pieces, key_val, from) == FALSE

DuplicatePiece(pieces, key_val, from) == from \in DOMAIN Entry(pieces, key_val)

(* pieces.insert(from, rs) *)
StorePieceMutEvictsOthers(pieces, key_val, from, rs) ==
    LET old == Entry(pieces, key_val)
        new_ == [a \in DOMAIN old \cup {from} |-> IF a = from THEN rs ELSE old[a]]
    IN [kv \in {key_val} |-> new_]

StorePiece(pieces, key_val, from, rs) ==
    LET old == Entry(pieces, key_val)
        new_ == [a \in DOMAIN old \cup {from} |-> IF a = from THEN rs ELSE old[a]]
    IN [kv \in DOMAIN pieces \cup {key_val} |-> IF kv = key_val THEN new_ ELSE pieces[kv]]

(* does this release the replay? *)
FinishedMutOnePieceEarly(emit, pieces, key_val, n) ==
    Cardinality(DOMAIN pieces[key_val]) + 1 =
        (IF emit.kind = "AllFrom" THEN n ELSE Cardinality(DOMAIN emit.emit))

Finished(emit, pieces, key_val, n) ==
    Cardinality(DOMAIN pieces[key_val]) =
        (IF emit.kind = "AllFrom" THEN n ELSE Cardinality(DOMAIN emit.emit))

(* replay_pieces.remove(&key_val) *)
RemoveMutClears(pieces, key_val) == EmptyMap

RemoveMutKeepsEntry(pieces, key_val) == pieces

RemoveMutLeavesEmptyEntry(pieces, key_val) ==
    [kv \in DOMAIN pieces |-> IF kv = key_val THEN EmptyMap ELSE pieces[kv]]

Remove(pieces, key_val) == [kv \in DOMAIN pieces \ {key_val} |-> pieces[kv]]

(* into_iter().flat_map(|(from, rs)| on_input(from, rs).results): the     *)
(* buffered pieces in the order ord in which the map yields them           *)
RECURSIVE FlatMap(_, _, _)
FlatMap(emit, entry, ord) ==
    IF ord = <<>> THEN [kind |-> "Ok", results |-> <<>>]
    ELSE LET h == on_input(emit, Head(ord), entry[Head(ord)])
             t == FlatMap(emit, entry, Tail(ord))
         IN IF h.kind = "Panic" \/ t.kind = "Panic" THEN Panic
            ELSE [kind |-> "Ok", results |-> h.results \o t.results]

ReleaseMutDropsLast(emit, entry, ord) ==
    IF ord = <<>> THEN Panic
    ELSE LET fm == FlatMap(emit, entry, SubSeq(ord, 1, Len(ord) - 1))
         IN IF fm.kind = "Panic" THEN Panic
            ELSE [kind |-> "ReplayPiece", results |-> fm.results]

Release(emit, entry, ord) ==
    LET fm == FlatMap(emit, entry, ord)
    IN IF fm.kind = "Panic" THEN Panic
       ELSE [kind |-> "ReplayPiece", results |-> fm.results]

(* The slow path forwards the whole batch through on_input *)
ForwardSlowMutWithholdsCaptured(self, from, rs) ==
    LET k == self.replay_key.v[from]
        NotCaptured(r) ==
            ~(r.row[k + 1] \in DOMAIN self.replay_pieces
              /\ from \in DOMAIN self.replay_pieces[r.row[k + 1]])
    IN Regular(on_input(self.emit, from, SelectSeq(rs, NotCaptured)))

ForwardSlow(self, from, rs) == Regular(on_input(self.emit, from, rs))

(* All orders in which a map with key set S can be iterated *)
Orders(S) ==
    {o \in [1..Cardinality(S) -> S] : \A i, j \in 1..Cardinality(S) : i # j => o[i] # o[j]}

on_input_raw(self, from, rs, is_replay_of, n, ord) ==
    IF ~is_replay_of.some
    THEN IF IsFastPath(self)
         THEN [self |-> self, path |-> "fast",
               res |-> Regular(on_input(self.emit, from, rs))]
         ELSE IF rs # <<>> /\ from \notin DOMAIN self.replay_key.v
              THEN \* replay_key[from] on a Map without that entry
                   [self |-> self, path |-> "slow", res |-> Panic]
              ELSE [self |-> IF rs = <<>> THEN self
                             ELSE [self EXCEPT !.replay_pieces =
                                       Leak(@, self.replay_key.v[from], from, rs)],
                    path |-> "slow",
                    res |-> ForwardSlow(self, from, rs)]
    ELSE LET key_col == is_replay_of.v[1]
             key_val == is_replay_of.v[2]
             keyed == IF self.replay_key.some THEN self
                      ELSE [self EXCEPT !.replay_key =
                                Some(EstablishReplayKey(self.emit, from, key_col))]
         IN IF DuplicatePiece(keyed.replay_pieces, key_val, from)
            THEN [self |-> keyed, path |-> "piece", res |-> Panic]
            ELSE LET stored == StorePiece(keyed.replay_pieces, key_val, from, rs)
                 IN IF Finished(keyed.emit, stored, key_val, n)
                    THEN [self |-> [keyed EXCEPT !.replay_pieces = Remove(stored, key_val)],
                          path |-> "piece",
                          res |-> Release(keyed.emit, stored[key_val], ord)]
                    ELSE [self |-> [keyed EXCEPT !.replay_pieces = stored],
                          path |-> "piece",
                          res |-> [kind |-> "Captured"]]

-----------------------------------------------------------------------------
(* The graph of the unit tests (setup): left has fields l0, l1 and right  *)
(* r0, r1, r2; the union emits left's [0, 1] and right's [0, 2].           *)

Left == 1
Right == 2

(* g[n].fields().len(): node a has a + 1 fields (left 2, right 3) *)
Fields(a) == a + 1

TestEmit == (Left :> <<0, 1>>) @@ (Right :> <<0, 2>>)

(* A shard merge's parent, and the shard counts tried *)
ShardParent == 1
ShardCounts == {2, 3}

(* The ancestors a batch can come from: the configured ancestors, or the  *)
(* shard indices 0..n-1 for a shard merge.                                 *)
Senders(self, n) ==
    IF self.emit.kind = "AllFrom" THEN 0..(n - 1) ELSE DOMAIN self.emit.emit

Width(self, from) == IF self.emit.kind = "AllFrom" THEN 2 ELSE Fields(from)

(* Output columns a replay can be keyed on, and the key values *)
KeyCols == {0, 1}
KeyVals == {1, 2}

(* A row of w fields: k in the first, p in the last, 0 in between *)
MkRow(w, k, p) == [i \in 1..w |-> IF i = 1 THEN k ELSE IF i = w THEN p ELSE 0]

SampleRecs(w) == {Rec(MkRow(w, 1, 2), TRUE), Rec(MkRow(w, 2, 1), FALSE)}

SeqsUpTo(S, n) == UNION {[1..m -> S] : m \in 0..n}

(* Batches of at most one and of two sample records *)
Short(w) == {<<>>} \cup {<<a>> : a \in SampleRecs(w)}
Pairs(w) == {<<a, b>> : a \in SampleRecs(w), b \in SampleRecs(w)}

(* Ordinary batches: none, one or two of the sample records; replay       *)
(* pieces: empty or one record.  The three-shard merge is driven with      *)
(* ordinary batches of at most one record and pieces of one fixed record.  *)
Batches(w) == IF nshards > 2 THEN Short(w) ELSE Short(w) \cup Pairs(w)

PieceBatches(w) ==
    IF nshards > 2 THEN {<<>>, <<Rec(MkRow(w, 1, 2), TRUE)>>} ELSE Short(w)

-----------------------------------------------------------------------------
(* The domain drives the operator one call at a time: it picks the next   *)
(* packet (a Deliver action), the operator runs the whole handler on it    *)
(* (a Handle action), and the domain takes the result (Return).  A panic   *)
(* ends the behaviour.                                                     *)

Idle == call = NoCall /\ ~aborted
Delivered == call # NoCall /\ res = NoResult
Handled == call # NoCall /\ res # NoResult

Target(t) == IF t = "self" THEN u ELSE cp

RawCall(t, from, rs, is_replay_of) ==
    [op |-> "on_input_raw", target |-> t, from |-> from, rs |-> rs,
     is_replay_of |-> is_replay_of, path |-> "", ord |-> <<>>]

RegularCall(t, from, rs) ==
    [op |-> "on_input", target |-> t, from |-> from, rs |-> rs]

Configs == {<<"Project", 1>>} \cup {<<"AllFrom", n>> : n \in ShardCounts}

Configure(c) ==
    /\ u = IF c[1] = "Project" THEN new(TestEmit).v ELSE new_deshard(ShardParent)
    /\ nshards = c[2]

Init ==
    /\ \E c \in Configs : Configure(c)
    /\ cp = NoUnion
    /\ call = NoCall
    /\ res = NoResult
    /\ pre = NoUnion
    /\ sent = EmptyMap
    /\ aborted = FALSE
    /\ ncalls = 0

(* processReplayAware with an ordinary batch *)
DeliverOrdinaryTo(t, max) ==
    /\ Idle /\ ncalls < max /\ Target(t) # NoUnion
    /\ \E from \in Senders(Target(t), nshards) :
       \E rs \in Batches(Width(Target(t), from)) :
          call' = RawCall(t, from, rs, None)
    /\ ncalls' = ncalls + 1
    /\ UNCHANGED <<u, cp, nshards, res, pre, sent, aborted>>

(* processReplayAware with a replay piece *)
DeliverPieceTo(t, max) ==
    /\ Idle /\ ncalls < max /\ Target(t) # NoUnion
    /\ \E from \in Senders(Target(t), nshards) :
       \E key_col \in KeyCols :
       \E key_val \in KeyVals :
       \E rs \in PieceBatches(Width(Target(t), from)) :
          call' = RawCall(t, from, rs, Some(<<key_col, key_val>>))
    /\ ncalls' = ncalls + 1
    /\ UNCHANGED <<u, cp, nshards, res, pre, sent, aborted>>

(* processRegular *)
DeliverRegularTo(t, max) ==
    /\ Idle /\ ncalls < max /\ Target(t) # NoUnion
    /\ \E from \in Senders(Target(t), nshards) :
       \E rs \in Batches(Width(Target(t), from)) :
          call' = RegularCall(t, from, rs)
    /\ ncalls' = ncalls + 1
    /\ UNCHANGED <<u, cp, nshards, res, pre, sent, aborted>>

DeliverOrdinary == DeliverOrdinaryTo("self", MaxCalls)
DeliverPiece == DeliverPieceTo("self", MaxCalls)
DeliverRegular == DeliverRegularTo("self", MaxCalls)

(* The orders in which the released pieces can be iterated; the order is  *)
(* read only by a call that releases.                                      *)
IterationOrders(self, c, n) ==
    IF ~c.is_replay_of.some THEN {<<>>}
    ELSE LET all == Orders(DOMAIN Entry(self.replay_pieces, c.is_replay_of.v[2])
                              \cup {c.from})
             any == CHOOSE o \in all : TRUE
         IN IF on_input_raw(self, c.from, c.rs, c.is_replay_of, n, any).res.kind
                  = "ReplayPiece"
            THEN all ELSE {<<>>}

(* Union::on_input_raw runs on the delivered packet *)
HandleRaw ==
    /\ Delivered /\ call.op = "on_input_raw"
    /\ \E ord \in IterationOrders(Target(call.target), call, nshards) :
          LET out == on_input_raw(Target(call.target), call.from, call.rs,
                                  call.is_replay_of, nshards, ord)
          IN /\ u' = IF call.target = "self" THEN out.self ELSE u
             /\ cp' = IF call.target = "self" THEN cp ELSE out.self
             /\ res' = out.res
             /\ aborted' = (out.res.kind = "Panic")
             /\ call' = [call EXCEPT !.path = out.path, !.ord = ord]
    /\ pre' = Target(call.target)
    /\ UNCHANGED <<nshards, sent, ncalls>>

(* Union::on_input runs on the delivered batch *)
HandleRegular ==
    /\ Delivered /\ call.op = "on_input"
    /\ LET out == on_input(Target(call.target).emit, call.from, call.rs)
       IN /\ res' = out
          /\ aborted' = (out.kind = "Panic")
    /\ pre' = Target(call.target)
    /\ UNCHANGED <<u, cp, nshards, call, sent, ncalls>>

(* The domain takes the result *)
Return ==
    /\ Handled /\ ~aborted
    /\ call' = NoCall
    /\ res' = NoResult
    /\ pre' = NoUnion
    /\ UNCHANGED <<u, cp, nshards, sent, aborted, ncalls>>

Next ==
    \/ DeliverOrdinary
    \/ DeliverPiece
    \/ DeliverRegular
    \/ HandleRaw
    \/ HandleRegular
    \/ Return

Spec == Init /\ [][Next]_vars

-----------------------------------------------------------------------------
(* What the claims speak of *)

HandledRaw == Handled /\ call.op = "on_input_raw"
IsPiece == HandledRaw /\ call.is_replay_of.some
IsOrdinary == HandledRaw /\ ~call.is_replay_of.some
IsProject == pre # NoUnion /\ pre.emit.kind = "Project"
IsAllFrom == pre # NoUnion /\ pre.emit.kind = "AllFrom"

(* The key value a replay piece is tagged with *)
PieceKey == call.is_replay_of.v[2]

(* n: the number of configured ancestors, or the shard count *)
AncestorCount ==
    IF pre.emit.kind = "AllFrom" THEN nshards ELSE Cardinality(DOMAIN pre.emit.emit)

(* The ancestors whose piece for key value k was buffered before the call *)
BufferedBefore(k) == DOMAIN Entry(pre.replay_pieces, k)

-----------------------------------------------------------------------------
(* C1: a replay piece call returns FinishedReplayPiece exactly when it    *)
(* buffers the piece of the n-th distinct ancestor for its key; every      *)
(* earlier piece for the key returns Captured and is kept; the release     *)
(* removes the key's entry, and fewer than n pieces are buffered under a   *)
(* key between calls, so n pieces make one round with one release.         *)
C1_ReleaseExactlyAtNth ==
    IsPiece =>
        LET had == BufferedBefore(PieceKey)
            fresh == call.from \notin had
        IN /\ Cardinality(had) < AncestorCount
           /\ (res.kind = "ReplayPiece") <=>
                  (fresh /\ Cardinality(had) + 1 = AncestorCount)
           /\ (fresh /\ Cardinality(had) + 1 < AncestorCount) =>
                  /\ res.kind = "Captured"
                  /\ DOMAIN Entry(u.replay_pieces, PieceKey) = had \cup {call.from}
           /\ res.kind = "ReplayPiece" => PieceKey \notin DOMAIN u.replay_pieces

(* A shard merge of three shards releases on the third piece *)
C1_Witness ==
    /\ IsPiece /\ IsAllFrom /\ nshards = 3
    /\ res.kind = "ReplayPiece"
    /\ Cardinality(BufferedBefore(PieceKey)) = 2

-----------------------------------------------------------------------------
(* The record the operator emits for a record rec of ancestor from: the   *)
(* row's values at the configured indices, in the configured order, with   *)
(* the sign of rec; a shard merge emits rec itself.                        *)
Emitted(emit, from, rec) ==
    IF emit.kind = "AllFrom" THEN rec
    ELSE [row |-> [j \in 1..Len(emit.emit[from]) |-> rec.row[emit.emit[from][j] + 1]],
          pos |-> rec.pos]

EmittedBatch(emit, from, rs) == [i \in 1..Len(rs) |-> Emitted(emit, from, rs[i])]

(* The input column of ancestor a that holds the replay key: a's entry of *)
(* the Replay Key, or for a shard without an entry the key column the      *)
(* shard merge was given.                                                  *)
ReplayKeyColumn(self, a) ==
    IF a \in DOMAIN self.replay_key.v THEN self.replay_key.v[a]
    ELSE CHOOSE c \in {self.replay_key.v[x] : x \in DOMAIN self.replay_key.v} : TRUE

(* The pieces a releasing call merges: those buffered before it and its own *)
MergedPieces == StorePiece(pre.replay_pieces, PieceKey, call.from, call.rs)[PieceKey]

RECURSIVE Concat(_, _, _)
Concat(emit, pieces, ord) ==
    IF ord = <<>> THEN <<>>
    ELSE EmittedBatch(emit, Head(ord), pieces[Head(ord)]) \o Concat(emit, pieces, Tail(ord))

(* C2: while ancestor A's piece for key K is buffered, every record of an *)
(* ordinary batch from A whose replay-key column holds K is returned in    *)
(* the RegularResult of that call and appended to A's buffered piece for   *)
(* K; a release emits every buffered record of every piece exactly once.   *)
C2_LeakForwarded ==
    /\ IsOrdinary =>
           \A k \in DOMAIN pre.replay_pieces :
               call.from \in DOMAIN pre.replay_pieces[k] =>
                   LET col == ReplayKeyColumn(pre, call.from)
                       Match(r) == r.row[col + 1] = k
                   IN /\ res.kind = "Regular"
                      /\ Len(res.results) = Len(call.rs)
                      /\ \A i \in 1..Len(call.rs) :
                             Match(call.rs[i]) =>
                                 res.results[i] = Emitted(pre.emit, call.from, call.rs[i])
                      /\ k \in DOMAIN u.replay_pieces
                      /\ call.from \in DOMAIN u.replay_pieces[k]
                      /\ u.replay_pieces[k][call.from] =
                             pre.replay_pieces[k][call.from] \o SelectSeq(call.rs, Match)
    /\ (IsPiece /\ res.kind = "ReplayPiece") =>
           res.results = Concat(pre.emit, MergedPieces, call.ord)

(* C2 for a projecting union alone *)
C2_LeakForwardedProject == IsProject => C2_LeakForwarded

C2_ProjectWitness ==
    /\ IsOrdinary /\ IsProject /\ res.kind = "Regular"
    /\ \E k \in DOMAIN pre.replay_pieces :
          /\ call.from \in DOMAIN pre.replay_pieces[k]
          /\ Len(u.replay_pieces[k][call.from]) > Len(pre.replay_pieces[k][call.from])

(* C4: for a projecting union an ordinary batch from a configured         *)
(* ancestor returns RegularResult with the batch processRegular gives and  *)
(* zero misses, on the fast path and on the slow path alike.               *)
C4_OrdinaryIsRegular ==
    (IsOrdinary /\ IsProject) =>
        /\ res.kind = "Regular"
        /\ res.misses = <<>>
        /\ res.results = on_input(pre.emit, call.from, call.rs).results
        /\ res.results = EmittedBatch(pre.emit, call.from, call.rs)
        /\ call.path = IF ~pre.replay_key.some \/ pre.replay_pieces = EmptyMap
                       THEN "fast" ELSE "slow"

(* The slow path, with a record pushed onto a buffered piece *)
C4_Witness ==
    /\ IsOrdinary /\ IsProject /\ call.path = "slow"
    /\ res.kind = "Regular" /\ Len(res.results) = 2
    /\ u.replay_pieces # pre.replay_pieces

(* C5: a shard merge returns an ordinary batch from any shard unchanged   *)
(* as a RegularResult, whichever shard sent it and whatever is buffered.   *)
C5_ShardBatchUnchanged ==
    (IsOrdinary /\ IsAllFrom) =>
        /\ res.kind = "Regular"
        /\ res.results = call.rs
        /\ res.misses = <<>>

(* C6: a replay piece for a (key, ancestor) pair that already has a piece *)
(* buffered aborts the call: the buffer is as before, and neither Captured *)
(* nor FinishedReplayPiece is returned.                                    *)
C6_DuplicatePieceFatal ==
    (IsPiece /\ call.from \in BufferedBefore(PieceKey)) =>
        /\ res.kind = "Panic"
        /\ aborted
        /\ u.replay_pieces = pre.replay_pieces

C6_Witness ==
    /\ IsPiece /\ call.from \in BufferedBefore(PieceKey)
    /\ res.kind = "Panic"
    /\ call.rs # pre.replay_pieces[PieceKey][call.from]

-----------------------------------------------------------------------------
(* The regular transform alone, over every projection Union::new accepts  *)
(* for the test graph and over all rows of values 1 and 2.                 *)

RegularVals == {1, 2}

(* Column lists of at most MaxListLen indices of a node with w fields *)
ColumnLists(w) == SeqsUpTo(0..(w - 1), MaxListLen)

(* Every map from some of the test graph's nodes to column lists *)
EmitMaps ==
    UNION {[S -> ColumnLists(3)] : S \in SUBSET {Left, Right}}

RegularEmits ==
    {e \in EmitMaps : new(e).some /\ \A a \in DOMAIN e : e[a] \in ColumnLists(Fields(a))}

RegularRecs(w) == {Rec(row, pos) : row \in [1..w -> RegularVals], pos \in BOOLEAN}

RegularBatches(w) == SeqsUpTo(RegularRecs(w), MaxRegularBatch)

InitRegular ==
    /\ u \in {new(e).v : e \in RegularEmits} \cup {new_deshard(ShardParent)}
    /\ nshards = 1
    /\ cp = NoUnion
    /\ call = NoCall
    /\ res = NoResult
    /\ pre = NoUnion
    /\ sent = EmptyMap
    /\ aborted = FALSE
    /\ ncalls = 0

DeliverAnyBatch ==
    /\ Idle /\ ncalls < MaxRegularCalls
    /\ \E from \in Senders(u, nshards) :
       \E rs \in RegularBatches(Width(u, from)) :
          call' = RegularCall("self", from, rs)
    /\ ncalls' = ncalls + 1
    /\ UNCHANGED <<u, cp, nshards, res, pre, sent, aborted>>

NextRegular == DeliverAnyBatch \/ HandleRegular \/ Return

SpecRegular == InitRegular /\ [][NextRegular]_vars

HandledRegular == Handled /\ call.op = "on_input"

(* C8: for a projecting union processRegular returns a batch of the same  *)
(* length whose i-th record has the sign of the i-th input record and, as  *)
(* its row, the input row's values at the indices emit[A], in that order.  *)
C8_ProjectionInOrder ==
    (HandledRegular /\ IsProject) =>
        LET cols == pre.emit.emit[call.from]
        IN /\ res.kind = "Ok"
           /\ Len(res.results) = Len(call.rs)
           /\ \A i \in 1..Len(call.rs) :
                 /\ res.results[i].pos = call.rs[i].pos
                 /\ Len(res.results[i].row) = Len(cols)
                 /\ \A j \in 1..Len(cols) :
                       res.results[i].row[j] = call.rs[i].row[cols[j] + 1]

(* emit[R] = [0, 2] maps a retraction of [1, 2, 2] to one of [1, 2] *)
C8_Witness ==
    /\ HandledRegular /\ IsProject
    /\ call.from = Right /\ pre.emit.emit[Right] = <<0, 2>>
    /\ call.rs = <<Rec(<<1, 1, 2>>, FALSE)>>
    /\ res.results = <<Rec(<<1, 2>>, FALSE)>>

-----------------------------------------------------------------------------
(* Construction: Union::new on every map from some of the test graph's    *)
(* nodes to a column list, rising or not                                   *)

InitNew ==
    /\ u = NoUnion
    /\ nshards = 1
    /\ cp = NoUnion
    /\ call = NoCall
    /\ res = NoResult
    /\ pre = NoUnion
    /\ sent = EmptyMap
    /\ aborted = FALSE
    /\ ncalls = 0

DeliverNew ==
    /\ Idle /\ u = NoUnion /\ ncalls = 0
    /\ \E e \in EmitMaps : call' = [op |-> "new", target |-> "self", emit |-> e]
    /\ ncalls' = ncalls + 1
    /\ UNCHANGED <<u, cp, nshards, res, pre, sent, aborted>>

HandleNew ==
    /\ Delivered /\ call.op = "new"
    /\ LET out == new(call.emit)
       IN /\ u' = IF out.some THEN out.v ELSE NoUnion
          /\ res' = IF out.some THEN [kind |-> "Ok"] ELSE Panic
          /\ aborted' = ~out.some
    /\ UNCHANGED <<cp, nshards, call, pre, sent, ncalls>>

NextNew == DeliverNew \/ HandleNew

SpecNew == InitNew /\ [][NextNew]_vars

StrictlyIncreasing(l) == \A i \in 2..Len(l) : l[i - 1] < l[i]

(* C9: Union::new fails whenever some ancestor's column list is not       *)
(* strictly increasing, and succeeds for every non-empty mapping whose     *)
(* (non-empty) lists are all strictly increasing.                          *)
C9_NewRejectsNonIncreasing ==
    (Handled /\ call.op = "new") =>
        /\ (\E a \in DOMAIN call.emit : ~StrictlyIncreasing(call.emit[a]))
               => res.kind = "Panic"
        /\ (/\ DOMAIN call.emit # {}
            /\ \A a \in DOMAIN call.emit :
                  call.emit[a] # <<>> /\ StrictlyIncreasing(call.emit[a]))
               => (res.kind = "Ok" /\ u.emit.emit = call.emit)

(* What Union::new does: it fails exactly for an empty map, an empty list *)
(* or a list in which some index is less than the one before it.           *)
C9_NewRejectsDecreasing ==
    (Handled /\ call.op = "new") =>
        (res.kind = "Panic") <=>
            \/ DOMAIN call.emit = {}
            \/ \E a \in DOMAIN call.emit :
                  \/ call.emit[a] = <<>>
                  \/ \E i \in 2..Len(call.emit[a]) : call.emit[a][i] < call.emit[a][i - 1]

-----------------------------------------------------------------------------
(* Migration: on_connected and on_commit on unions over the nodes         *)
(* 1..MaxNode, node a emitting the columns [0, a].                         *)

Nodes == 1..MaxNode

CommitEmits ==
    {[a \in S |-> <<0, a>>] : S \in {T \in SUBSET Nodes : T # {} /\ Cardinality(T) <= 2}}

(* Every old -> new mapping over the nodes *)
Remaps == UNION {[S -> Nodes] : S \in SUBSET Nodes}

InitCommit ==
    /\ u \in {new(e).v : e \in CommitEmits} \cup {new_deshard(p) : p \in Nodes}
    /\ nshards = 1
    /\ cp = NoUnion
    /\ call = NoCall
    /\ res = NoResult
    /\ pre = NoUnion
    /\ sent = EmptyMap
    /\ aborted = FALSE
    /\ ncalls = 0

(* on_connected, once, before any commit *)
Connect ==
    /\ Idle /\ ncalls = 0
    /\ u.emit.kind = "Project" /\ u.emit.cols = EmptyMap
    /\ u' = on_connected(u, [n \in DOMAIN u.emit.emit |-> Fields(n)])
    /\ UNCHANGED <<cp, nshards, call, res, pre, sent, aborted, ncalls>>

DeliverCommit ==
    /\ Idle /\ ncalls < MaxCommits
    /\ \E remap \in Remaps :
          call' = [op |-> "on_commit", target |-> "self", remap |-> remap, ord |-> <<>>]
    /\ ncalls' = ncalls + 1
    /\ UNCHANGED <<u, cp, nshards, res, pre, sent, aborted>>

HandleCommit ==
    /\ Delivered /\ call.op = "on_commit"
    /\ \E ord \in Orders(DOMAIN call.remap) :
          LET out == on_commit(u, call.remap, ord)
          IN /\ u' = out.self
             /\ res' = [kind |-> out.kind]
             /\ aborted' = (out.kind = "Panic")
             /\ call' = [call EXCEPT !.ord = ord]
    /\ pre' = u
    /\ UNCHANGED <<cp, nshards, sent, ncalls>>

NextCommit == Connect \/ DeliverCommit \/ HandleCommit \/ Return

SpecCommit == InitCommit /\ [][NextCommit]_vars

HandledCommit == Handled /\ call.op = "on_commit"

(* remap(k): keys absent from remap stay *)
Remapped(k) == IF k \in DOMAIN call.remap THEN call.remap[k] ELSE k

(* The map a key-by-key rewrite of map through remap gives *)
Rewritten(map) ==
    [k2 \in {Remapped(k) : k \in DOMAIN map} |->
        map[CHOOSE k \in DOMAIN map : Remapped(k) = k2]]

Collides(map) == \E a, b \in DOMAIN map : a # b /\ Remapped(a) = Remapped(b)

(* C10: for a projecting union on_commit rewrites every ancestor key k of *)
(* emit and cols to remap(k), each key keeping its column list and field   *)
(* count, whatever the order of the remap entries; it fails exactly when   *)
(* two distinct ancestors end up on one key, and never drops or merges an  *)
(* ancestor.                                                               *)
C10_CommitRewritesKeys ==
    (HandledCommit /\ IsProject) =>
        /\ (res.kind = "Panic") <=> Collides(pre.emit.emit)
        /\ res.kind = "Ok" =>
              /\ u.emit.emit = Rewritten(pre.emit.emit)
              /\ u.emit.cols = Rewritten(pre.emit.cols)

(* C10 for remaps none of whose new ids is an old id that is being        *)
(* renamed or an old id of another remap entry                             *)
C10_CommitDisjointRemap ==
    (/\ HandledCommit /\ IsProject
     /\ \A k \in DOMAIN call.remap :
           call.remap[k] # k => call.remap[k] \notin DOMAIN call.remap)
        => C10_CommitRewritesKeys

-----------------------------------------------------------------------------
(* Duplication: the operator is driven as in Spec, duplicated by take at  *)
(* any point between calls, and the copy is then driven as well.           *)

(* Union::take: Clone::clone(self).into() *)
take(self) == Clone(self)

Take ==
    /\ Idle /\ ncalls < MaxCloneCalls /\ cp = NoUnion
    /\ cp' = take(u)
    /\ call' = [op |-> "take", target |-> "self"]
    /\ res' = [kind |-> "Taken"]
    /\ pre' = u
    /\ ncalls' = ncalls + 1
    /\ UNCHANGED <<u, nshards, sent, aborted>>

DeliverOrdinaryClone == DeliverOrdinaryTo("self", MaxCloneCalls)
DeliverPieceClone == DeliverPieceTo("self", MaxCloneCalls)
DeliverOrdinaryCopy == DeliverOrdinaryTo("copy", MaxCloneCalls)
DeliverPieceCopy == DeliverPieceTo("copy", MaxCloneCalls)

NextClone ==
    \/ DeliverOrdinaryClone
    \/ DeliverPieceClone
    \/ Take
    \/ DeliverOrdinaryCopy
    \/ DeliverPieceCopy
    \/ HandleRaw
    \/ Return

SpecClone == Init /\ [][NextClone]_vars

(* C7: the copy made by clone / take has the original's Emit Policy, no   *)
(* Replay Key and an empty Replay Buffer, whatever the original holds; an  *)
(* ordinary batch leaves the copy's Replay Key unset and its buffer empty  *)
(* and is answered on the fast path, so the copy stays on the fast path    *)
(* until its own first replay piece.                                       *)
C7_CopyStartsFresh ==
    /\ (Handled /\ call.op = "take") =>
          /\ cp.emit = pre.emit
          /\ cp.replay_key = None
          /\ cp.replay_pieces = EmptyMap
          /\ u = pre
    /\ (IsOrdinary /\ call.target = "copy" /\ ~pre.replay_key.some) =>
          /\ call.path = "fast"
          /\ res.kind = "Regular"
          /\ res.results = EmittedBatch(pre.emit, call.from, call.rs)
          /\ cp = pre
    /\ (IsPiece /\ call.target = "copy" /\ res.kind # "Panic") => cp.replay_key.some

(* The original is duplicated with a Replay Key and a piece buffered *)
C7_Witness ==
    /\ Handled /\ call.op = "take"
    /\ pre.replay_key.some /\ pre.replay_pieces # EmptyMap
    /\ cp.emit = u.emit /\ ~cp.replay_key.some /\ cp.replay_pieces = EmptyMap

-----------------------------------------------------------------------------
(* Replays as the engine produces them: every ancestor sends its ordinary *)
(* batches in order, and its replay piece for a key value is a snapshot of *)
(* the records it has sent so far whose key column holds that value.  All  *)
(* replays through the operator are keyed on one output column.            *)

(* The input column of ancestor a behind output column key_col *)
InputColumn(emit, a, key_col) ==
    IF emit.kind = "AllFrom" THEN key_col ELSE emit.emit[a][key_col + 1]

(* The records of the batch rs of ancestor a that belong to key value k *)
RecordsFor(emit, a, key_col, k, rs) ==
    LET Match(r) == r.row[InputColumn(emit, a, key_col) + 1] = k
    IN SelectSeq(rs, Match)

InitSnapshot ==
    /\ \E c \in Configs : Configure(c)
    /\ \E key_col \in KeyCols :
          sent = [key_col |-> key_col, log |-> [a \in Senders(u, nshards) |-> <<>>]]
    /\ cp = NoUnion
    /\ call = NoCall
    /\ res = NoResult
    /\ pre = NoUnion
    /\ aborted = FALSE
    /\ ncalls = 0

SendOrdinary ==
    /\ Idle /\ ncalls < MaxSnapCalls
    /\ \E from \in Senders(u, nshards) :
       \E rs \in Short(Width(u, from)) \ {<<>>} :
          /\ call' = RawCall("self", from, rs, None)
          /\ sent' = [sent EXCEPT !.log[from] = @ \o rs]
    /\ ncalls' = ncalls + 1
    /\ UNCHANGED <<u, cp, nshards, res, pre, aborted>>

SendSnapshot ==
    /\ Idle /\ ncalls < MaxSnapCalls
    /\ \E from \in Senders(u, nshards) :
       \E key_val \in KeyVals :
          call' = RawCall("self", from,
                          RecordsFor(u.emit, from, sent.key_col, key_val, sent.log[from]),
                          Some(<<sent.key_col, key_val>>))
    /\ ncalls' = ncalls + 1
    /\ UNCHANGED <<u, cp, nshards, res, pre, sent, aborted>>

NextSnapshot == SendOrdinary \/ SendSnapshot \/ HandleRaw \/ Return

SpecSnapshot == InitSnapshot /\ [][NextSnapshot]_vars

(* What a release for key value k must hold: for each ancestor, in the    *)
(* order ord of the merge, what it emits for the records for k it has sent *)
RECURSIVE MergeOfSent(_, _, _)
MergeOfSent(emit, k, ord) ==
    IF ord = <<>> THEN <<>>
    ELSE EmittedBatch(emit, Head(ord),
                      RecordsFor(emit, Head(ord), sent.key_col, k, sent.log[Head(ord)]))
         \o MergeOfSent(emit, k, Tail(ord))

-----------------------------------------------------------------------------
(* Column provenance: resolve and parent_columns on every projection      *)
(* Union::new accepts for the test graph, and on a shard merge.            *)

(* emit.iter().map(..).collect(): one pair (src, emit[col]) per entry of  *)
(* emit, the map iterated in the order ord.                                *)
ColumnPairs(emit, col, ord) ==
    [i \in 1..Len(ord) |-> <<ord[i], emit[ord[i]][col + 1]>>]

(* (src, Some(c)) for every pair (src, c) *)
WithSome(pairs) == [i \in 1..Len(pairs) |-> <<pairs[i][1], Some(pairs[i][2])>>]

ResolveMutFirstOnly(self, col, ord) ==
    IF self.emit.kind = "AllFrom"
    THEN [kind |-> "Ok", v |-> Some(<< <<self.emit.parent, col>> >>)]
    ELSE IF \E a \in DOMAIN self.emit.emit : col >= Len(self.emit.emit[a])
         THEN Panic
         ELSE [kind |-> "Ok",
               v |-> Some(ColumnPairs(self.emit.emit, col, SubSeq(ord, 1, 1)))]

(* Union::resolve *)
resolve(self, col, ord) ==
    IF self.emit.kind = "AllFrom"
    THEN [kind |-> "Ok", v |-> Some(<< <<self.emit.parent, col>> >>)]
    ELSE IF \E a \in DOMAIN self.emit.emit : col >= Len(self.emit.emit[a])
         THEN Panic
         ELSE [kind |-> "Ok", v |-> Some(ColumnPairs(self.emit.emit, col, ord))]

(* Union::parent_columns *)
parent_columns(self, col, ord) ==
    IF self.emit.kind = "AllFrom"
    THEN [kind |-> "Ok", v |-> << <<self.emit.parent, Some(col)>> >>]
    ELSE IF \E a \in DOMAIN self.emit.emit : col >= Len(self.emit.emit[a])
         THEN Panic
         ELSE [kind |-> "Ok", v |-> WithSome(ColumnPairs(self.emit.emit, col, ord))]

(* The columns asked about *)
OutputCols == 0..(MaxListLen - 1)

DeliverResolve ==
    /\ Idle /\ ncalls < MaxResolveCalls
    /\ \E col \in OutputCols :
          call' = [op |-> "resolve", target |-> "self", col |-> col, ord |-> <<>>]
    /\ ncalls' = ncalls + 1
    /\ UNCHANGED <<u, cp, nshards, res, pre, sent, aborted>>

DeliverParentColumns ==
    /\ Idle /\ ncalls < MaxResolveCalls
    /\ \E col \in OutputCols :
          call' = [op |-> "parent_columns", target |-> "self", col |-> col, ord |-> <<>>]
    /\ ncalls' = ncalls + 1
    /\ UNCHANGED <<u, cp, nshards, res, pre, sent, aborted>>

(* The orders in which emit can be iterated *)
EmitOrders(self) ==
    IF self.emit.kind = "AllFrom" THEN {<<>>} ELSE Orders(DOMAIN self.emit.emit)

HandleResolve ==
    /\ Delivered /\ call.op = "resolve"
    /\ \E ord \in EmitOrders(u) :
          LET out == resolve(u, call.col, ord)
          IN /\ res' = out
             /\ aborted' = (out.kind = "Panic")
             /\ call' = [call EXCEPT !.ord = ord]
    /\ pre' = u
    /\ UNCHANGED <<u, cp, nshards, sent, ncalls>>

HandleParentColumns ==
    /\ Delivered /\ call.op = "parent_columns"
    /\ \E ord \in EmitOrders(u) :
          LET out == parent_columns(u, call.col, ord)
          IN /\ res' = out
             /\ aborted' = (out.kind = "Panic")
             /\ call' = [call EXCEPT !.ord = ord]
    /\ pre' = u
    /\ UNCHANGED <<u, cp, nshards, sent, ncalls>>

NextResolve ==
    \/ DeliverResolve
    \/ DeliverParentColumns
    \/ HandleResolve
    \/ HandleParentColumns
    \/ Return

SpecResolve == InitRegular /\ [][NextResolve]_vars

(* The pairs a result lists, and how many *)
PairsOf(seq) == {seq[i] : i \in 1..Len(seq)}

(* parent_columns' pairs with the column taken out of its Option *)
Unwrapped(seq) == {<<seq[i][1], seq[i][2].v>> : i \in 1..Len(seq)}

(* col is an output column: every ancestor's list has an index for it *)
IsOutputColumn(self, col) ==
    self.emit.kind = "Project" => \A a \in DOMAIN self.emit.emit : col < Len(self.emit.emit[a])

ExpectedPairs(self, col) ==
    IF self.emit.kind = "AllFrom" THEN {<<self.emit.parent, col>>}
    ELSE {<<a, self.emit.emit[a][col + 1]>> : a \in DOMAIN self.emit.emit}

(* C11: for an output column col, resolve(col) and parent_columns(col)    *)
(* each list exactly one pair per configured ancestor A, (A, emit[A][col]), *)
(* and the same pairs as each other; a shard merge gives (parent, col).    *)
C11_ResolveOnePairPerAncestor ==
    (Handled /\ call.op \in {"resolve", "parent_columns"}
        /\ IsOutputColumn(pre, call.col)) =>
        LET n == IF pre.emit.kind = "AllFrom" THEN 1 ELSE Cardinality(DOMAIN pre.emit.emit)
            expected == ExpectedPairs(pre, call.col)
        IN /\ res.kind = "Ok"
           /\ call.op = "resolve" =>
                 /\ res.v.some
                 /\ Len(res.v.v) = n
                 /\ PairsOf(res.v.v) = expected
                 /\ \A o \in EmitOrders(pre) :
                       Unwrapped(parent_columns(pre, call.col, o).v) = PairsOf(res.v.v)
           /\ call.op = "parent_columns" =>
                 /\ Len(res.v) = n
                 /\ \A i \in 1..Len(res.v) : res.v[i][2].some
                 /\ Unwrapped(res.v) = expected
                 /\ \A o \in EmitOrders(pre) :
                       PairsOf(resolve(pre, call.col, o).v.v) = Unwrapped(res.v)

(* resolve(1) on the test graph's union gives (left, 1) and (right, 2) *)
C11_Witness ==
    /\ Handled /\ call.op = "resolve" /\ call.col = 1
    /\ pre.emit.kind = "Project" /\ pre.emit.emit = TestEmit
    /\ res.kind = "Ok"
    /\ PairsOf(res.v.v) = {<<Left, 1>>, <<Right, 2>>}

-----------------------------------------------------------------------------
(* The Replay Buffer between and during calls (Spec) *)

(* n for the operator as it is now *)
AncestorsOf(self) ==
    IF self.emit.kind = "AllFrom" THEN nshards ELSE Cardinality(DOMAIN self.emit.emit)

(* The number of pieces buffered under key value k *)
PieceCount(self, k) == Cardinality(DOMAIN Entry(self.replay_pieces, k))

(* C12: in every reachable state the Replay Buffer holds at most one      *)
(* piece per (key, ancestor) pair: a piece is taken in only for a pair     *)
(* that has none, and then the key holds exactly one piece more; and the   *)
(* number of pieces under any key never exceeds n, the pieces being those  *)
(* of distinct ancestors (or shards) of the operator.                      *)
C12_OnePiecePerPairAtMostN ==
    /\ \A k \in DOMAIN u.replay_pieces :
          /\ PieceCount(u, k) <= AncestorsOf(u)
          /\ DOMAIN u.replay_pieces[k] \subseteq Senders(u, nshards)
    /\ (IsPiece /\ res.kind # "Panic") =>
          /\ call.from \notin BufferedBefore(PieceKey)
          /\ PieceCount(pre, PieceKey) + 1 <= AncestorCount
          /\ res.kind = "Captured" =>
                /\ PieceCount(u, PieceKey) = PieceCount(pre, PieceKey) + 1
                /\ u.replay_pieces[PieceKey][call.from] = call.rs

(* Two keys are mid-refill, one of them one piece short of n = 3 *)
C12_Witness ==
    /\ IsPiece /\ res.kind = "Captured" /\ nshards = 3
    /\ Cardinality(DOMAIN u.replay_pieces) = 2
    /\ PieceCount(u, PieceKey) = 2

-----------------------------------------------------------------------------
(* C13: a replay piece for key K from ancestor A changes only K's entry   *)
(* of the Replay Buffer.  While the key stays incomplete the call returns  *)
(* Captured, which carries no records, and the buffer differs from before  *)
(* only by the new (K, A) piece; when the key completes K's whole entry is *)
(* removed in that call; the pieces under every other key stay as they     *)
(* were, and so does the Emit Policy.                                      *)
C13_PieceTouchesOnlyItsKey ==
    IsPiece =>
        /\ \A k \in (DOMAIN pre.replay_pieces \cup DOMAIN u.replay_pieces) \ {PieceKey} :
              /\ k \in DOMAIN pre.replay_pieces
              /\ k \in DOMAIN u.replay_pieces
              /\ u.replay_pieces[k] = pre.replay_pieces[k]
        /\ u.emit = pre.emit
        /\ res.kind \in {"Captured", "ReplayPiece", "Panic"}
        /\ res.kind = "Captured" =>
              /\ DOMAIN res = {"kind"}
              /\ DOMAIN u.replay_pieces[PieceKey] = BufferedBefore(PieceKey) \cup {call.from}
              /\ u.replay_pieces[PieceKey][call.from] = call.rs
              /\ \A a \in BufferedBefore(PieceKey) :
                    u.replay_pieces[PieceKey][a] = pre.replay_pieces[PieceKey][a]
        /\ res.kind = "ReplayPiece" =>
              /\ PieceKey \notin DOMAIN u.replay_pieces
              /\ DOMAIN u.replay_pieces = DOMAIN pre.replay_pieces \ {PieceKey}

(* A key completes while another key is mid-refill *)
C13_Witness ==
    /\ IsPiece /\ res.kind = "ReplayPiece"
    /\ PieceKey \in DOMAIN pre.replay_pieces
    /\ \E k \in DOMAIN u.replay_pieces : k # PieceKey /\ u.replay_pieces[k] # EmptyMap

-----------------------------------------------------------------------------
(* C14: the Replay Key is unset until the first replay piece arrives, is  *)
(* set by that call (for a projecting union to every ancestor's input      *)
(* column behind the output key column, for a shard merge to the sender's  *)
(* entry), and no later call changes or clears it: not a later piece, even *)
(* one tagged with another key column, not an ordinary batch, not a        *)
(* completion.                                                             *)
C14_ReplayKeySetOnce ==
    /\ (Idle /\ ncalls = 0) => ~u.replay_key.some
    /\ Handled =>
          /\ pre.replay_key.some => u.replay_key = pre.replay_key
          /\ (~pre.replay_key.some /\ ~IsPiece) => ~u.replay_key.some
          /\ (~pre.replay_key.some /\ IsPiece) =>
                /\ u.replay_key.some
                /\ IsProject =>
                      u.replay_key.v =
                          [a \in DOMAIN pre.emit.emit |->
                              pre.emit.emit[a][call.is_replay_of.v[1] + 1]]
                /\ IsAllFrom =>
                      u.replay_key.v = (call.from :> call.is_replay_of.v[1])

(* A piece tagged with another key column completes a key and the Replay  *)
(* Key stays what the first piece made it                                  *)
C14_Witness ==
    /\ IsPiece /\ IsProject /\ res.kind = "ReplayPiece"
    /\ pre.replay_key.some
    /\ pre.replay_key.v[Left] # call.is_replay_of.v[1]
    /\ u.replay_key = pre.replay_key
    /\ u.replay_key.v[Right] = 2

-----------------------------------------------------------------------------
(* The regular transform on two identically configured instances with     *)
(* different histories: the operator takes replay pieces and ordinary      *)
(* batches, is duplicated by take, and on_input is called on either one.   *)

DeliverOrdinaryPure == DeliverOrdinaryTo("self", MaxPureCalls)
DeliverPiecePure == DeliverPieceTo("self", MaxPureCalls)
DeliverRegularPure == DeliverRegularTo("self", MaxPureCalls)
DeliverRegularCopy == DeliverRegularTo("copy", MaxPureCalls)

TakePure ==
    /\ Idle /\ ncalls < MaxPureCalls /\ cp = NoUnion
    /\ cp' = take(u)
    /\ call' = [op |-> "take", target |-> "self"]
    /\ res' = [kind |-> "Taken"]
    /\ pre' = u
    /\ ncalls' = ncalls + 1
    /\ UNCHANGED <<u, nshards, sent, aborted>>

NextPure ==
    \/ DeliverOrdinaryPure
    \/ DeliverPiecePure
    \/ TakePure
    \/ DeliverRegularPure
    \/ DeliverRegularCopy
    \/ HandleRaw
    \/ HandleRegular
    \/ Return

SpecPure == Init /\ [][NextPure]_vars

(* C15: processRegular is stateless and deterministic: the call leaves    *)
(* the Emit Policy, the Replay Key and the Replay Buffer of both instances *)
(* as they were, reports zero misses, and returns the batch that the       *)
(* configuration, the ancestor and the batch alone determine, the same on  *)
(* the other, identically configured instance whatever its history.        *)
C15_RegularIsPure ==
    HandledRegular =>
        /\ Target(call.target) = pre
        /\ res.kind = "Ok"
        /\ res.misses = <<>>
        /\ res.results = EmittedBatch(pre.emit, call.from, call.rs)
        /\ \A other \in {u, cp} \ {NoUnion} :
              other.emit = pre.emit =>
                  on_input(other.emit, call.from, call.rs) = res

(* on_input on the fresh copy while the original is mid-refill *)
C15_Witness ==
    /\ HandledRegular /\ call.target = "copy" /\ IsProject
    /\ u.replay_key.some /\ u.replay_pieces # EmptyMap
    /\ ~cp.replay_key.some
    /\ Len(call.rs) = 2 /\ Len(res.results) = 2

-----------------------------------------------------------------------------
(* Arrival order: besides the operator, the domain's traffic is logged.   *)
(* For every key value mid-refill and every ancestor whose piece has       *)
(* arrived, the log holds the records of that piece followed by the        *)
(* records for the key of the ancestor's later ordinary batches, in the    *)
(* order of arrival.  Pieces are arbitrary batches of up to two records.   *)

OrderPieces(w) ==
    {<<>>, <<Rec(MkRow(w, 1, 2), TRUE)>>,
     <<Rec(MkRow(w, 2, 1), FALSE), Rec(MkRow(w, 1, 2), TRUE)>>}

InitOrder ==
    /\ \E c \in Configs : Configure(c)
    /\ sent = [key_col |-> None, log |-> EmptyMap]
    /\ cp = NoUnion
    /\ call = NoCall
    /\ res = NoResult
    /\ pre = NoUnion
    /\ aborted = FALSE
    /\ ncalls = 0

(* The log after ancestor from has sent the ordinary batch rs *)
LogOrdinary(log, emit, key_col, from, rs) ==
    [k \in DOMAIN log |->
        [a \in DOMAIN log[k] |->
            IF a = from
            THEN log[k][a] \o RecordsFor(emit, from, key_col, k, rs)
            ELSE log[k][a]]]

(* The log once key value k is released *)
LogRelease(log, k) == [kv \in DOMAIN log \ {k} |-> log[kv]]

(* The log after ancestor from has sent the piece rs for key value k *)
LogPiece(log, k, from, rs) ==
    [kv \in DOMAIN log \cup {k} |->
        IF kv = k
        THEN [a \in DOMAIN Entry(log, k) \cup {from} |->
                 IF a = from THEN rs ELSE log[k][a]]
        ELSE log[kv]]

SendOrdinaryOrder ==
    /\ Idle /\ ncalls < MaxOrderCalls
    /\ \E from \in Senders(u, nshards) :
       \E rs \in Short(Width(u, from)) :
          /\ call' = RawCall("self", from, rs, None)
          /\ sent' = IF sent.key_col.some
                     THEN [sent EXCEPT !.log =
                               LogOrdinary(@, u.emit, sent.key_col.v, from, rs)]
                     ELSE sent
    /\ ncalls' = ncalls + 1
    /\ UNCHANGED <<u, cp, nshards, res, pre, aborted>>

SendPieceOrder ==
    /\ Idle /\ ncalls < MaxOrderCalls
    /\ \E from \in Senders(u, nshards) :
       \E key_col \in KeyCols :
       \E key_val \in KeyVals :
       \E rs \in OrderPieces(Width(u, from)) :
          /\ call' = RawCall("self", from, rs, Some(<<key_col, key_val>>))
          /\ sent' = [key_col |-> IF sent.key_col.some THEN sent.key_col ELSE Some(key_col),
                      log |-> LogPiece(sent.log, key_val, from, rs)]
    /\ ncalls' = ncalls + 1
    /\ UNCHANGED <<u, cp, nshards, res, pre, aborted>>

(* The domain takes the result; a released key's log is closed *)
ReturnOrder ==
    /\ Handled /\ ~aborted
    /\ sent' = IF res.kind = "ReplayPiece"
               THEN [sent EXCEPT !.log = LogRelease(@, call.is_replay_of.v[2])]
               ELSE sent
    /\ call' = NoCall
    /\ res' = NoResult
    /\ pre' = NoUnion
    /\ UNCHANGED <<u, cp, nshards, aborted, ncalls>>

NextOrder == SendOrdinaryOrder \/ SendPieceOrder \/ HandleRaw \/ ReturnOrder

SpecOrder == InitOrder /\ [][NextOrder]_vars

RECURSIVE GroupsInOrder(_, _, _)
GroupsInOrder(emit, log, ord) ==
    IF ord = <<>> THEN <<>>
    ELSE EmittedBatch(emit, Head(ord), log[Head(ord)]) \o GroupsInOrder(emit, log, Tail(ord))

-----------------------------------------------------------------------------
(* Refills to their end: the handler runs on every packet the domain      *)
(* hands it (weak fairness of HandleRaw); whether further packets arrive   *)
(* is up to the ancestors.                                                 *)

(* One record, of key value 1 in column 0; replays keyed on column 0 *)
LiveBatch(w) == <<Rec(MkRow(w, 1, 2), TRUE)>>

SendOrdinaryLive ==
    /\ Idle /\ ncalls < MaxLiveCalls
    /\ \E from \in Senders(u, nshards) :
          call' = RawCall("self", from, LiveBatch(Width(u, from)), None)
    /\ ncalls' = ncalls + 1
    /\ UNCHANGED <<u, cp, nshards, res, pre, sent, aborted>>

SendPieceLive ==
    /\ Idle /\ ncalls < MaxLiveCalls
    /\ \E from \in Senders(u, nshards) :
       \E key_val \in KeyVals :
          call' = RawCall("self", from, LiveBatch(Width(u, from)), Some(<<0, key_val>>))
    /\ ncalls' = ncalls + 1
    /\ UNCHANGED <<u, cp, nshards, res, pre, sent, aborted>>

NextLive == SendOrdinaryLive \/ SendPieceLive \/ HandleRaw \/ Return

SpecLive == Init /\ [][NextLive]_vars /\ WF_vars(HandleRaw)

(* The piece just handed over is the last one missing for key value k *)
LastPieceDelivered(k) ==
    /\ Delivered /\ call.op = "on_input_raw" /\ call.is_replay_of.some
    /\ call.is_replay_of.v[2] = k
    /\ call.from \notin DOMAIN Entry(u.replay_pieces, k)
    /\ DOMAIN Entry(u.replay_pieces, k) \cup {call.from} = Senders(u, nshards)

Released(k) ==
    /\ IsPiece /\ PieceKey = k /\ res.kind = "ReplayPiece"
    /\ k \notin DOMAIN u.replay_pieces

(* A step that takes key value k out of the buffer is the completion of k *)
RemovedOnlyByCompletion ==
    \A k \in KeyVals :
        (k \in DOMAIN u.replay_pieces /\ k \notin DOMAIN u'.replay_pieces) =>
            /\ Delivered /\ call.is_replay_of.some /\ call.is_replay_of.v[2] = k
            /\ res'.kind = "ReplayPiece"
            /\ DOMAIN u.replay_pieces[k] \cup {call.from} = Senders(u, nshards)

(* While a key is incomplete its entry and its pieces stay through the call *)
EntryPersists ==
    HandledRaw =>
        \A k \in DOMAIN pre.replay_pieces :
            ~(IsPiece /\ PieceKey = k /\ res.kind = "ReplayPiece") =>
                /\ k \in DOMAIN u.replay_pieces
                /\ DOMAIN pre.replay_pieces[k] \subseteq DOMAIN u.replay_pieces[k]

(* C17: a key's buffer entry is removed only by completion: while some    *)
(* ancestor has not delivered its piece for key K the entry persists       *)
(* through ordinary batches and pieces for other keys; and once every      *)
(* ancestor has delivered its piece for K, K is eventually released and    *)
(* has no entry in the buffer.                                             *)
C17_RemovedOnlyByCompletion ==
    /\ [][RemovedOnlyByCompletion]_vars
    /\ []EntryPersists
    /\ \A k \in KeyVals : LastPieceDelivered(k) ~> Released(k)

(* A key completes after an ordinary batch was leak-forwarded into its    *)
(* waiting piece                                                           *)
C17_Witness ==
    /\ IsPiece /\ res.kind = "ReplayPiece" /\ IsProject
    /\ \E a \in DOMAIN pre.replay_pieces[PieceKey] :
          Len(pre.replay_pieces[PieceKey][a]) >= 2

-----------------------------------------------------------------------------
(* The records of the batch rs that ancestor from sent for key value k,   *)
(* by the Replay Key's column for that ancestor                            *)
MatchingRecords(self, from, k, rs) ==
    LET Match(r) == r.row[self.replay_key.v[from] + 1] = k
    IN SelectSeq(rs, Match)

(* C18: an ordinary batch never creates or removes a Replay Buffer entry: *)
(* the keys and the (key, ancestor) pieces are those from before the call; *)
(* the only change is that the records of the batch for a key are appended *)
(* to the piece the sending ancestor already has under that key, so pieces *)
(* of other ancestors and pieces under keys that no record of the batch    *)
(* matches stay as they were, as do the Emit Policy and the Replay Key.    *)
C18_OrdinaryOnlyAppends ==
    IsOrdinary =>
        /\ DOMAIN u.replay_pieces = DOMAIN pre.replay_pieces
        /\ u.emit = pre.emit
        /\ u.replay_key = pre.replay_key
        /\ \A k \in DOMAIN pre.replay_pieces :
              /\ DOMAIN u.replay_pieces[k] = DOMAIN pre.replay_pieces[k]
              /\ \A a \in DOMAIN pre.replay_pieces[k] :
                    IF a = call.from /\ res.kind # "Panic"
                    THEN u.replay_pieces[k][a] =
                             pre.replay_pieces[k][a] \o
                                 MatchingRecords(pre, call.from, k, call.rs)
                    ELSE u.replay_pieces[k][a] = pre.replay_pieces[k][a]

(* A record for a key under which only the other ancestor has a piece:    *)
(* nothing is added                                                        *)
C18_Witness ==
    /\ IsOrdinary /\ IsProject /\ call.path = "slow" /\ res.kind = "Regular"
    /\ \E k \in DOMAIN pre.replay_pieces :
          /\ call.from \notin DOMAIN pre.replay_pieces[k]
          /\ MatchingRecords(pre, call.from, k, call.rs) # <<>>
    /\ u.replay_pieces = pre.replay_pieces

-----------------------------------------------------------------------------
(* Rounds: refills of a key one after another.  Beside the arrival log    *)
(* the key values that have been released are recorded, and whether the    *)
(* piece just sent is the first of its key's round.  Batches and pieces    *)
(* hold one record; replays are keyed on output column 0.                  *)

RoundBatches(w) == {<<a>> : a \in SampleRecs(w)}

InitRound ==
    /\ \E c \in Configs : Configure(c)
    /\ sent = [key_col |-> Some(0), log |-> EmptyMap, done |-> {}, first |-> FALSE]
    /\ cp = NoUnion
    /\ call = NoCall
    /\ res = NoResult
    /\ pre = NoUnion
    /\ aborted = FALSE
    /\ ncalls = 0

SendOrdinaryRound ==
    /\ Idle /\ ncalls < MaxRoundCalls
    /\ \E from \in Senders(u, nshards) :
       \E rs \in RoundBatches(Width(u, from)) :
          /\ call' = RawCall("self", from, rs, None)
          /\ sent' = [sent EXCEPT !.log =
                          LogOrdinary(@, u.emit, sent.key_col.v, from, rs),
                                    !.first = FALSE]
    /\ ncalls' = ncalls + 1
    /\ UNCHANGED <<u, cp, nshards, res, pre, aborted>>

SendPieceRound ==
    /\ Idle /\ ncalls < MaxRoundCalls
    /\ \E from \in Senders(u, nshards) :
       \E key_val \in KeyVals :
       \E rs \in RoundBatches(Width(u, from)) :
          /\ call' = RawCall("self", from, rs, Some(<<sent.key_col.v, key_val>>))
          /\ sent' = [sent EXCEPT !.log = LogPiece(@, key_val, from, rs),
                                    !.first = key_val \notin DOMAIN sent.log]
    /\ ncalls' = ncalls + 1
    /\ UNCHANGED <<u, cp, nshards, res, pre, aborted>>

(* The domain takes the result; a release ends the key's round *)
ReturnRound ==
    /\ Handled /\ ~aborted
    /\ sent' = IF res.kind = "ReplayPiece"
               THEN [sent EXCEPT !.log = LogRelease(@, call.is_replay_of.v[2]),
                                 !.done = @ \cup {call.is_replay_of.v[2]}]
               ELSE sent
    /\ call' = NoCall
    /\ res' = NoResult
    /\ pre' = NoUnion
    /\ UNCHANGED <<u, cp, nshards, aborted, ncalls>>

NextRound == SendOrdinaryRound \/ SendPieceRound \/ HandleRaw \/ ReturnRound

SpecRound == InitRound /\ [][NextRound]_vars

(* Key value k has been released and no piece for it has arrived since *)
BackToEmpty(k) == k \in sent.done /\ k \notin DOMAIN sent.log

(* The piece of this call is the first for its key since the key's release *)
FirstSinceRelease ==
    /\ IsPiece /\ PieceKey \in sent.done
    /\ sent.first

(* C20: after the FinishedReplayPiece for key K is released K is back in  *)
(* the Empty state: a later piece for K, also from an ancestor of the      *)
(* finished round, is accepted and starts a round of its own; the new      *)
(* round's release holds the records of the new round alone; and until a   *)
(* new piece for K is buffered an ordinary batch for K is appended nowhere. *)
C20_ReleasedKeyStartsAfresh ==
    /\ (~Handled /\ ~aborted) =>
          \A k \in sent.done : k \notin DOMAIN sent.log => k \notin DOMAIN u.replay_pieces
    /\ FirstSinceRelease =>
          /\ res.kind = "Captured"
          /\ u.replay_pieces[PieceKey] = (call.from :> call.rs)
    /\ (IsPiece /\ PieceKey \in sent.done /\ res.kind = "ReplayPiece") =>
          /\ {call.ord[i] : i \in 1..Len(call.ord)} = DOMAIN sent.log[PieceKey]
          /\ res.results = GroupsInOrder(pre.emit, sent.log[PieceKey], call.ord)
    /\ (IsOrdinary /\ res.kind = "Regular") =>
          \A k \in sent.done :
              BackToEmpty(k) =>
                  /\ k \notin DOMAIN u.replay_pieces
                  /\ (\E i \in 1..Len(call.rs) :
                         call.rs[i].row[InputColumn(pre.emit, call.from, sent.key_col.v) + 1] = k)
                         => u.replay_pieces = pre.replay_pieces

(* The second round of a key is released: both ancestors of the first     *)
(* round have sent a piece again                                           *)
C20_Witness ==
    /\ IsPiece /\ IsProject /\ res.kind = "ReplayPiece"
    /\ PieceKey \in sent.done
    /\ Len(res.results) = 3

-----------------------------------------------------------------------------
(* C19: between invocations no key of the Replay Buffer maps to an empty  *)
(* set of pieces, and every key present holds between 1 and n - 1 pieces;  *)
(* the keys present are exactly the keys mid-refill (a piece has arrived   *)
(* and the key is not yet released), so the buffer is empty, and the fast  *)
(* path taken, exactly when no key is mid-refill once a Replay Key is set. *)
C19_BufferHoldsOnlyOpenKeys ==
    Idle =>
        /\ \A k \in DOMAIN u.replay_pieces :
              /\ u.replay_pieces[k] # EmptyMap
              /\ PieceCount(u, k) >= 1
              /\ PieceCount(u, k) <= AncestorsOf(u) - 1
        /\ DOMAIN u.replay_pieces = DOMAIN sent.log
        /\ \A k \in DOMAIN sent.log : DOMAIN u.replay_pieces[k] = DOMAIN sent.log[k]
        /\ (u.replay_pieces = EmptyMap) <=> (sent.log = EmptyMap)
        /\ IsFastPath(u) <=> (sent.log = EmptyMap)

(* A key has been released and a key of a three-shard merge is one piece  *)
(* short of complete                                                       *)
C19_Witness ==
    /\ Idle /\ nshards = 3
    /\ sent.done # {}
    /\ \E k \in DOMAIN u.replay_pieces : PieceCount(u, k) = AncestorsOf(u) - 1

====
